---- MODULE Spec2Model ----
(***************************************************************************)
(* Model of core/image_generator.py: the provider factory                  *)
(* (ImageGeneratorFactory.create) and the two generate() coroutines        *)
(* (OpenAIImageGenerator, ReplicateImageGenerator).  A coroutine is one    *)
(* action per segment between two awaits; what the network, the backend    *)
(* and the file system answer is chosen by the environment.                *)
(***************************************************************************)
EXTENDS Integers, Sequences, FiniteSets, TLC

VARIABLES
    provider,      \* create(): argument `provider`
    credentials,   \* create(): argument `credentials`
    config,        \* create(): argument `config`
    self,          \* the object create() produced / generate() runs on
    pc,            \* position of the generate() coroutine
    output_path,   \* generate(): argument `output_path`
    request,       \* the JSON payload of the POST (OpenAI)
    resp,          \* the HTTP response under `async with ... as resp/response`
    output,        \* Replicate: what client.run returned
    fs,            \* the file system: path -> file
    fs0,           \* the file system when generate() was called
    trace,         \* network operations and write_bytes calls, in order
    diag,          \* lines printed
    pending,       \* how the `async with` body was left
    result,        \* how the call ended
    cancelAt       \* the await at which the host cancelled the call

vars == <<provider, credentials, config, self, pc, output_path, request, resp,
          output, fs, fs0, trace, diag, pending, result, cancelAt>>

factoryVars == <<provider, credentials, config>>
callVars == <<pc, output_path, request, resp, output, fs, fs0, trace, diag,
              pending, result, cancelAt>>

----------------------------------------------------------------------------
(* Bounds *)

\* longest b64_json string the mocked backend returns
MaxB64Len == 4
\* longest body the download GET returns
MaxBodyLen == 2

----------------------------------------------------------------------------
(* Python values *)

\* the value of dict.get on a missing key
None == "<None>"

EmptyDict == [k \in {} |-> None]

\* d.get(k)
DictGet(d, k) == IF k \in DOMAIN d THEN d[k] ELSE None

\* bool(v) of a str or None
Truthy(v) == v /= None /\ v /= ""

----------------------------------------------------------------------------
(* ImageGeneratorFactory.create *)

ProviderNames == {"openai", "replicate", "OpenAI", "dalle"}

SecretsOf(key) ==
    IF key = "OPENAI_API_KEY" THEN {"", "sk-a"} ELSE {"", "r8-b"}

CredentialSets ==
    { c \in UNION { [K -> {"", "sk-a", "r8-b"}] :
                      K \in SUBSET {"OPENAI_API_KEY", "REPLICATE_API_TOKEN"} } :
        \A key \in DOMAIN c : c[key] \in SecretsOf(key) }

\* provider sub-configurations: with and without the keys generate() reads
OpenAIConfigs ==
    { EmptyDict,
      [k \in {"model"} |-> "gpt-image-1"],
      [k \in {"model", "size", "quality", "style"} |->
          CASE k = "model" -> "gpt-image-1"
            [] k = "size" -> "512x512"
            [] k = "quality" -> "hd"
            [] k = "style" -> "vivid"] }

ReplicateConfigs ==
    { EmptyDict, [k \in {"model"} |-> "stability-ai/sdxl"] }

ProviderMaps ==
    UNION { { [n \in K |-> IF n = "openai" THEN o ELSE r] :
                o \in OpenAIConfigs, r \in ReplicateConfigs } :
            K \in SUBSET {"openai", "replicate"} }

\* the configuration object: with or without its "providers" section
Configs ==
    { EmptyDict } \cup { [k \in {"providers"} |-> m] : m \in ProviderMaps }

NoObject == [kind |-> "None", secret |-> "", config |-> EmptyDict]

Raised(exc) == [kind |-> exc, secret |-> "", config |-> EmptyDict]

OtherName(name) == IF name = "openai" THEN "replicate" ELSE "openai"

\* a lookup that takes the other provider's section
SubConfigOfOther(cfg, name) ==
    IF "providers" \in DOMAIN cfg /\ OtherName(name) \in DOMAIN cfg["providers"]
    THEN [kind |-> "ok", secret |-> "", config |-> cfg["providers"][OtherName(name)]]
    ELSE Raised("KeyError")

\* config["providers"][name], evaluated for the constructor call
SubConfig(cfg, name) ==
    IF "providers" \in DOMAIN cfg /\ name \in DOMAIN cfg["providers"]
    THEN [kind |-> "ok", secret |-> "", config |-> cfg["providers"][name]]
    ELSE Raised("KeyError")

\* a create() that tries the other provider when the named one has no credential
CreateWithFallback(p, creds, cfg) ==
    IF p \in {"openai", "replicate"} /\ Truthy(DictGet(creds, "OPENAI_API_KEY"))
    THEN LET sub == SubConfig(cfg, "openai") IN
         IF sub.kind /= "ok" THEN sub
         ELSE [kind |-> "OpenAIImageGenerator",
               secret |-> creds["OPENAI_API_KEY"], config |-> sub.config]
    ELSE IF p \in {"openai", "replicate"} /\ Truthy(DictGet(creds, "REPLICATE_API_TOKEN"))
    THEN LET sub == SubConfig(cfg, "replicate") IN
         IF sub.kind /= "ok" THEN sub
         ELSE [kind |-> "ReplicateImageGenerator",
               secret |-> creds["REPLICATE_API_TOKEN"], config |-> sub.config]
    ELSE NoObject

Create(p, creds, cfg) ==
    IF p = "openai" /\ Truthy(DictGet(creds, "OPENAI_API_KEY"))
    THEN LET sub == SubConfig(cfg, "openai") IN
         IF sub.kind /= "ok" THEN sub
         ELSE [kind |-> "OpenAIImageGenerator",
               secret |-> creds["OPENAI_API_KEY"], config |-> sub.config]
    ELSE IF p = "replicate" /\ Truthy(DictGet(creds, "REPLICATE_API_TOKEN"))
    THEN LET sub == SubConfig(cfg, "replicate") IN
         IF sub.kind /= "ok" THEN sub
         ELSE [kind |-> "ReplicateImageGenerator",
               secret |-> creds["REPLICATE_API_TOKEN"], config |-> sub.config]
    ELSE NoObject

IsGenerator(obj) ==
    obj.kind \in {"OpenAIImageGenerator", "ReplicateImageGenerator"}

\* every generator the factory can hand out
Instances ==
    { obj \in { Create(p, c, g) : p \in ProviderNames, c \in CredentialSets, g \in Configs } :
        IsGenerator(obj) }

----------------------------------------------------------------------------
(* base64.b64decode(b64): binascii.a2b_base64, not strict *)

B64Alphabet ==
    << "A", "B", "C", "D", "E", "F", "G", "H", "I", "J", "K", "L", "M",
       "N", "O", "P", "Q", "R", "S", "T", "U", "V", "W", "X", "Y", "Z",
       "a", "b", "c", "d", "e", "f", "g", "h", "i", "j", "k", "l", "m",
       "n", "o", "p", "q", "r", "s", "t", "u", "v", "w", "x", "y", "z",
       "0", "1", "2", "3", "4", "5", "6", "7", "8", "9", "+", "/" >>

IsB64Char(c) == \E i \in DOMAIN B64Alphabet : B64Alphabet[i] = c

B64Value(c) == (CHOOSE i \in DOMAIN B64Alphabet : B64Alphabet[i] = c) - 1

RECURSIVE A2B(_, _, _, _, _, _)
A2B(s, i, quad_pos, pads, leftchar, out) ==
    IF i > Len(s)
    THEN IF quad_pos = 0
         THEN [ok |-> TRUE, bytes |-> out]
         ELSE [ok |-> FALSE, bytes |-> <<>>]
    ELSE IF s[i] = "="
    THEN IF quad_pos >= 2 /\ quad_pos + pads + 1 >= 4
         THEN [ok |-> TRUE, bytes |-> out]
         ELSE A2B(s, i + 1, quad_pos,
                  IF quad_pos >= 2 THEN pads + 1 ELSE pads, leftchar, out)
    ELSE IF ~IsB64Char(s[i])
    THEN A2B(s, i + 1, quad_pos, pads, leftchar, out)
    ELSE LET v == B64Value(s[i]) IN
         CASE quad_pos = 0 -> A2B(s, i + 1, 1, 0, v, out)
           [] quad_pos = 1 ->
                A2B(s, i + 1, 2, 0, v % 16,
                    Append(out, (leftchar * 4 + v \div 16) % 256))
           [] quad_pos = 2 ->
                A2B(s, i + 1, 3, 0, v % 4,
                    Append(out, (leftchar * 16 + v \div 4) % 256))
           [] OTHER ->
                A2B(s, i + 1, 0, 0, 0,
                    Append(out, (leftchar * 64 + v) % 256))

B64Decode(s) == A2B(s, 1, 0, 0, 0, <<>>)

----------------------------------------------------------------------------
(* What the environment can answer *)

B64Chars == {"Q", "/", "=", "-"}

B64Strings == UNION { [1..n -> B64Chars] : n \in 0..MaxB64Len }

\* one result object of the "data" list: with or without "b64_json"
Items ==
    { [has |-> FALSE, b64 |-> <<>>] } \cup { [has |-> TRUE, b64 |-> s] : s \in B64Strings }

SecondItem == [has |-> TRUE, b64 |-> <<"/", "/", "/", "/">>]

\* the body of the POST's response: not JSON, an object without "data",
\* or an object whose "data" is a list of result objects
Bodies ==
    { [json |-> FALSE, hasData |-> FALSE, data |-> <<>>],
      [json |-> TRUE, hasData |-> FALSE, data |-> <<>>],
      [json |-> TRUE, hasData |-> TRUE, data |-> <<>>] }
    \cup { [json |-> TRUE, hasData |-> TRUE, data |-> <<it>>] : it \in Items }
    \cup { [json |-> TRUE, hasData |-> TRUE, data |-> <<it, SecondItem>>] : it \in Items }

PostResponses == [status : {200, 201, 400}, body : Bodies]

ByteStrings == UNION { [1..n -> {137, 80}] : n \in 0..MaxBodyLen }

GetResponses == [status : {200, 404}, body : ByteStrings]

\* what client.run returns: an object with or without a `url`
Outputs ==
    { [hasUrl |-> FALSE, url |-> ""] }
    \cup { [hasUrl |-> TRUE, url |-> u] : u \in {"http://x/img.png", "http://y/img.png"} }

Paths == {"out/a.png", "out/b.png"}

Prompts == {"a lighthouse at dusk"}

Absent == [exists |-> FALSE, bytes |-> <<>>]

File(bytes) == [exists |-> TRUE, bytes |-> bytes]

FileSystems == [Paths -> {Absent, File(<<7>>)}]

----------------------------------------------------------------------------
(* Values of the generate() coroutine *)

NoRequest == [url |-> "", auth |-> "", body |-> EmptyDict]
NoResponse == [status |-> 0, body |-> <<>>]
NoOutput == [hasUrl |-> FALSE, url |-> ""]
NoPending == [kind |-> "none", exc |-> ""]
Running == [kind |-> "running", value |-> ""]

Ev(op, arg) == [op |-> op, arg |-> arg]

\* the lines generate() prints
HttpLine(status) ==
    [who |-> "OpenAI", kind |-> "http", status |-> status, text |-> "body"]
NoDataLine ==
    [who |-> "OpenAI", kind |-> "nodata", status |-> 0, text |-> "data"]
ExcLine(who, exc) ==
    [who |-> who, kind |-> "exception", status |-> 0, text |-> exc]

\* `payload` of OpenAIImageGenerator.generate
Payload(cfg, prompt) ==
    [k \in {"model", "prompt", "n", "size"} \cup (DOMAIN cfg \cap {"quality", "style"}) |->
        CASE k = "model" -> cfg["model"]
          [] k = "prompt" -> prompt
          [] k = "n" -> 1
          [] k = "size" -> IF "size" \in DOMAIN cfg THEN cfg["size"] ELSE "1024x1024"
          [] OTHER -> cfg[k]]

\* the input of client.run
RunInput(prompt) ==
    [k \in {"prompt", "negative_prompt", "width", "height"} |->
        CASE k = "prompt" -> prompt
          [] k = "negative_prompt" -> "text, watermark, low quality"
          [] OTHER -> 1024]

\* a status test that accepts every 2xx
StatusOk2xx(status) == status \in 200..299

\* `resp.status != 200`, negated
StatusOk(status) == status = 200

\* an extraction that takes the last result object
ExtractB64Last(body) ==
    LET list == IF body.hasData THEN body.data ELSE << [has |-> FALSE, b64 |-> <<>>] >> IN
    IF Len(list) = 0 THEN [exc |-> "IndexError", has |-> FALSE, b64 |-> <<>>]
    ELSE [exc |-> "none", has |-> list[Len(list)].has, b64 |-> list[Len(list)].b64]

\* data.get("data", [{}])[0].get("b64_json")
ExtractB64(body) ==
    LET list == IF body.hasData THEN body.data ELSE << [has |-> FALSE, b64 |-> <<>>] >> IN
    IF Len(list) = 0 THEN [exc |-> "IndexError", has |-> FALSE, b64 |-> <<>>]
    ELSE [exc |-> "none", has |-> list[1].has, b64 |-> list[1].b64]

\* `if not b64`, negated
HasImage(x) == x.has /\ x.b64 /= <<>>

\* output_path.write_bytes(data): open(mode='wb') may fail and leave the file
\* alone; once open the file is truncated, and a failing write leaves a prefix
WriteBytes(f, path, data) ==
    { [fs |-> f, exc |-> "OSError"] }
    \cup { [fs |-> [f EXCEPT ![path] = File(SubSeq(data, 1, k))], exc |-> "OSError"] :
             k \in 0..(Len(data) - 1) }
    \cup { [fs |-> [f EXCEPT ![path] = File(data)], exc |-> "none"] }

----------------------------------------------------------------------------
(* The factory, called *)

FactoryInit ==
    /\ provider = ""
    /\ credentials = EmptyDict
    /\ config = EmptyDict
    /\ self = NoObject
    /\ pc = "idle"
    /\ output_path = ""
    /\ request = NoRequest
    /\ resp = NoResponse
    /\ output = NoOutput
    /\ fs \in FileSystems
    /\ fs0 = fs
    /\ trace = <<>>
    /\ diag = <<>>
    /\ pending = NoPending
    /\ result = Running
    /\ cancelAt = ""

CallCreate ==
    \E p \in ProviderNames, c \in CredentialSets, g \in Configs :
        /\ provider' = p
        /\ credentials' = c
        /\ config' = g
        /\ self' = Create(p, c, g)
        /\ UNCHANGED callVars

FactoryNext == CallCreate

FactorySpec == FactoryInit /\ [][FactoryNext]_vars

----------------------------------------------------------------------------
(* generate(), called on a generator the factory made *)

Init ==
    /\ provider = ""
    /\ credentials = EmptyDict
    /\ config = EmptyDict
    /\ self \in Instances
    /\ pc = "idle"
    /\ output_path = ""
    /\ request = NoRequest
    /\ resp = NoResponse
    /\ output = NoOutput
    /\ fs \in FileSystems
    /\ fs0 = fs
    /\ trace = <<>>
    /\ diag = <<>>
    /\ pending = NoPending
    /\ result = Running
    /\ cancelAt = ""

\* the `except Exception as e` clause of either generate(): print, return None
Except(who, exc) ==
    /\ diag' = Append(diag, ExcLine(who, exc))
    /\ result' = [kind |-> "None", value |-> ""]
    /\ pc' = "done"

\* an exception leaves the `async with` body: the context managers exit first
LeaveWith(exc) ==
    /\ pending' = [kind |-> "exception", exc |-> exc]
    /\ pc' = "closing"

\* OpenAIImageGenerator.generate up to `await session.post`: the payload is
\* built outside the try block
OpenAIGenerate ==
    /\ pc = "idle"
    /\ self.kind = "OpenAIImageGenerator"
    /\ \E prompt \in Prompts, path \in Paths :
        /\ output_path' = path
        /\ fs0' = fs
        /\ IF "model" \notin DOMAIN self.config
           THEN /\ result' = [kind |-> "raised", value |-> "KeyError"]
                /\ pc' = "done"
                /\ UNCHANGED <<request, trace>>
           ELSE /\ request' = [url |-> "https://api.openai.com/v1/images/generations",
                               auth |-> self.secret,
                               body |-> Payload(self.config, prompt)]
                /\ trace' = Append(trace, Ev("POST", "https://api.openai.com/v1/images/generations"))
                /\ pc' = "oa_post"
                /\ UNCHANGED result
    /\ UNCHANGED <<factoryVars, self, resp, output, fs, diag, pending, cancelAt>>

\* a variant that posts again when the connection fails
OpenAIPostDoneRetry ==
    /\ pc = "oa_post"
    /\ \/ /\ Len(trace) < 3
          /\ trace' = Append(trace, Ev("POST", request.url))
          /\ UNCHANGED <<resp, pc, pending>>
       \/ \E r \in PostResponses :
            /\ resp' = r
            /\ trace' = Append(trace, Ev("RESPONSE", ""))
            /\ pc' = IF StatusOk(r.status) THEN "oa_json" ELSE "oa_text"
            /\ UNCHANGED pending
    /\ UNCHANGED <<factoryVars, self, output_path, request, output, fs, fs0, diag,
                   result, cancelAt>>

\* a variant that opens the destination as soon as the response arrives
OpenAIPostDoneOpensFile ==
    /\ pc = "oa_post"
    /\ \E r \in PostResponses :
            /\ resp' = r
            /\ trace' = Append(trace, Ev("RESPONSE", ""))
            /\ pc' = IF StatusOk(r.status) THEN "oa_json" ELSE "oa_text"
            /\ fs' = IF StatusOk(r.status) THEN [fs EXCEPT ![output_path] = File(<<>>)] ELSE fs
    /\ UNCHANGED <<factoryVars, self, output_path, request, output, fs0, diag,
                   pending, result, cancelAt>>

\* `async with session.post(...) as resp` answers: a transport fault, or a response
OpenAIPostDone ==
    /\ pc = "oa_post"
    /\ \/ /\ LeaveWith("ClientConnectorError")
          /\ UNCHANGED <<resp, trace>>
       \/ \E r \in PostResponses :
            /\ resp' = r
            /\ trace' = Append(trace, Ev("RESPONSE", ""))
            /\ pc' = IF StatusOk(r.status) THEN "oa_json" ELSE "oa_text"
            /\ UNCHANGED pending
    /\ UNCHANGED <<factoryVars, self, output_path, request, output, fs, fs0, diag,
                   result, cancelAt>>

\* `await resp.text()` answers: the status line is printed, or reading faults
OpenAITextDone ==
    /\ pc = "oa_text"
    /\ \/ /\ LeaveWith("ClientPayloadError")
          /\ UNCHANGED <<diag, trace>>
       \/ /\ diag' = Append(diag, HttpLine(resp.status))
          /\ trace' = Append(trace, Ev("BODY", ""))
          /\ pending' = [kind |-> "return_none", exc |-> ""]
          /\ pc' = "closing"
    /\ UNCHANGED <<factoryVars, self, output_path, request, resp, output, fs, fs0,
                   result, cancelAt>>

\* `await resp.json()` answers, and the rest of the body runs to its return
OpenAIJsonDone ==
    /\ pc = "oa_json"
    /\ \/ /\ LeaveWith("ClientPayloadError")
          /\ UNCHANGED <<diag, trace, fs>>
       \/ /\ ~resp.body.json
          /\ LeaveWith("ContentTypeError")
          /\ trace' = Append(trace, Ev("BODY", ""))
          /\ UNCHANGED <<diag, fs>>
       \/ /\ resp.body.json
          /\ LET b64 == ExtractB64(resp.body)
                 image_data == B64Decode(b64.b64)
                 read == Append(trace, Ev("BODY", ""))
             IN  IF b64.exc /= "none"
                 THEN /\ LeaveWith(b64.exc)
                      /\ trace' = read
                      /\ UNCHANGED <<diag, fs>>
                 ELSE IF ~HasImage(b64)
                 THEN /\ diag' = Append(diag, NoDataLine)
                      /\ pending' = [kind |-> "return_none", exc |-> ""]
                      /\ pc' = "closing"
                      /\ trace' = read
                      /\ UNCHANGED fs
                 ELSE IF ~image_data.ok
                 THEN /\ LeaveWith("binascii.Error")
                      /\ trace' = read
                      /\ UNCHANGED <<diag, fs>>
                 ELSE \E w \in WriteBytes(fs, output_path, image_data.bytes) :
                      /\ fs' = w.fs
                      /\ trace' = Append(read, Ev("WRITE", output_path))
                      /\ pending' = IF w.exc = "none"
                                    THEN [kind |-> "return_path", exc |-> ""]
                                    ELSE [kind |-> "exception", exc |-> w.exc]
                      /\ pc' = "closing"
                      /\ UNCHANGED diag
    /\ UNCHANGED <<factoryVars, self, output_path, request, resp, output, fs0,
                   result, cancelAt>>

\* ReplicateImageGenerator.generate up to `await self.client.run`: the model
\* is read inside the try block
ReplicateGenerate ==
    /\ pc = "idle"
    /\ self.kind = "ReplicateImageGenerator"
    /\ \E prompt \in Prompts, path \in Paths :
        /\ output_path' = path
        /\ fs0' = fs
        /\ IF "model" \notin DOMAIN self.config
           THEN /\ Except("Replicate", "KeyError")
                /\ UNCHANGED <<request, trace>>
           ELSE /\ request' = [url |-> self.config["model"],
                               auth |-> self.secret,
                               body |-> RunInput(prompt)]
                /\ trace' = Append(trace, Ev("RUN", self.config["model"]))
                /\ pc' = "rp_run"
                /\ UNCHANGED <<diag, result>>
    /\ UNCHANGED <<factoryVars, self, resp, output, fs, pending, cancelAt>>

\* client.run answers: a fault, or an output whose `url` the GET is sent to
ReplicateRunDone ==
    /\ pc = "rp_run"
    /\ \/ /\ Except("Replicate", "ReplicateError")
          /\ UNCHANGED <<output, trace, pending>>
       \/ \E o \in Outputs :
            /\ output' = o
            /\ IF ~o.hasUrl
               THEN /\ LeaveWith("AttributeError")
                    /\ trace' = Append(trace, Ev("RESULT", ""))
               ELSE /\ trace' = Append(Append(trace, Ev("RESULT", "")), Ev("GET", o.url))
                    /\ pc' = "rp_get"
                    /\ UNCHANGED pending
            /\ UNCHANGED <<diag, result>>
    /\ UNCHANGED <<factoryVars, self, output_path, request, resp, fs, fs0, cancelAt>>

\* `async with session.get(output.url) as response` answers; the status is not read
ReplicateGetDone ==
    /\ pc = "rp_get"
    /\ \/ /\ LeaveWith("ClientConnectorError")
          /\ UNCHANGED <<resp, trace>>
       \/ \E r \in GetResponses :
            /\ resp' = r
            /\ trace' = Append(trace, Ev("RESPONSE", ""))
            /\ pc' = "rp_read"
            /\ UNCHANGED pending
    /\ UNCHANGED <<factoryVars, self, output_path, request, output, fs, fs0, diag,
                   result, cancelAt>>

\* `await response.read()` answers, and the body is written
ReplicateReadDone ==
    /\ pc = "rp_read"
    /\ \/ /\ LeaveWith("ClientPayloadError")
          /\ UNCHANGED <<trace, fs>>
       \/ \E w \in WriteBytes(fs, output_path, resp.body) :
            /\ fs' = w.fs
            /\ trace' = Append(Append(trace, Ev("BODY", "")), Ev("WRITE", output_path))
            /\ pending' = IF w.exc = "none"
                          THEN [kind |-> "return_path", exc |-> ""]
                          ELSE [kind |-> "exception", exc |-> w.exc]
            /\ pc' = "closing"
    /\ UNCHANGED <<factoryVars, self, output_path, request, resp, output, fs0, diag,
                   result, cancelAt>>

Who == IF self.kind = "OpenAIImageGenerator" THEN "OpenAI" ELSE "Replicate"

\* the context managers have exited: the return takes effect, or the
\* exception reaches the except clause
Close ==
    /\ pc = "closing"
    /\ CASE pending.kind = "return_path" ->
              /\ result' = [kind |-> "path", value |-> output_path]
              /\ pc' = "done"
              /\ UNCHANGED diag
         [] pending.kind = "return_none" ->
              /\ result' = [kind |-> "None", value |-> ""]
              /\ pc' = "done"
              /\ UNCHANGED diag
         [] OTHER -> Except(Who, pending.exc)
    /\ UNCHANGED <<factoryVars, self, output_path, request, resp, output, fs, fs0,
                   trace, pending, cancelAt>>

\* the awaits of generate(): the places where the coroutine is suspended
Awaits == {"oa_post", "oa_text", "oa_json", "rp_run", "rp_get", "rp_read", "closing"}

\* the host cancels the task: CancelledError is raised at the current await
\* and, being no Exception, passes the except clause
Cancel ==
    /\ pc \in Awaits
    /\ cancelAt' = pc
    /\ result' = [kind |-> "cancelled", value |-> "CancelledError"]
    /\ pc' = "done"
    /\ UNCHANGED <<factoryVars, self, output_path, request, resp, output, fs, fs0,
                   trace, diag, pending>>

Next ==
    \/ OpenAIGenerate
    \/ OpenAIPostDone
    \/ OpenAITextDone
    \/ OpenAIJsonDone
    \/ ReplicateGenerate
    \/ ReplicateRunDone
    \/ ReplicateGetDone
    \/ ReplicateReadDone
    \/ Close
    \/ Cancel

Spec == Init /\ [][Next]_vars

----------------------------------------------------------------------------
(* Vocabulary of the properties *)

Known(p) == p \in {"openai", "replicate"}

RequiredKey(p) == IF p = "openai" THEN "OPENAI_API_KEY" ELSE "REPLICATE_API_TOKEN"

ImplementationOf(p) ==
    IF p = "openai" THEN "OpenAIImageGenerator" ELSE "ReplicateImageGenerator"

CredentialPresent(p) ==
    RequiredKey(p) \in DOMAIN credentials /\ credentials[RequiredKey(p)] /= ""

HasSubConfiguration(p) ==
    "providers" \in DOMAIN config /\ p \in DOMAIN config["providers"]

IsOpenAI == self.kind = "OpenAIImageGenerator"
IsReplicate == self.kind = "ReplicateImageGenerator"

Count(op) == Cardinality({ i \in DOMAIN trace : trace[i].op = op })

Ops(n) == [i \in 1..n |-> trace[i].op]

Answered == resp /= NoResponse

NonError(status) == status < 400
Success2xx(status) == status \in 200..299

\* the first result object carries a non-empty payload that decodes
ValidPayload ==
    /\ resp.body.json
    /\ resp.body.hasData
    /\ Len(resp.body.data) >= 1
    /\ HasImage(resp.body.data[1])
    /\ B64Decode(resp.body.data[1].b64).ok

\* the image the backend returned
ReturnedImage ==
    IF IsOpenAI THEN B64Decode(resp.body.data[1].b64).bytes ELSE resp.body

\* no transport, decoding or file fault happened, and nobody cancelled
Undisturbed == pending.kind /= "exception" /\ result.kind /= "cancelled"

OthersUntouched == \A q \in Paths \ {output_path} : fs[q] = fs0[q]

----------------------------------------------------------------------------
(* Properties of the factory, under FactorySpec *)

\* C1: create returns no provider whenever the name is not one of "openai",
\* "replicate", or the credential the named provider requires is absent or
\* empty -- also when the other provider's credential is present.
C1_NoProviderWithoutMatch ==
    (~Known(provider) \/ ~CredentialPresent(provider)) => self = NoObject

\* C1 witness: "openai" is named, its key is missing, Replicate's token is
\* there with a usable configuration, and create returned None.
C1_Witness ==
    /\ provider = "openai"
    /\ "OPENAI_API_KEY" \notin DOMAIN credentials
    /\ DictGet(credentials, "REPLICATE_API_TOKEN") = "r8-b"
    /\ HasSubConfiguration("replicate")
    /\ self = NoObject

\* C2 as stated: a known name with its credential present always yields an
\* instance of the matching implementation, holding the credential and the
\* sub-configuration keyed by the name.
C2_Original ==
    (Known(provider) /\ CredentialPresent(provider)) =>
        /\ self.kind = ImplementationOf(provider)
        /\ self.secret = credentials[RequiredKey(provider)]
        /\ HasSubConfiguration(provider)
        /\ self.config = config["providers"][provider]

\* C2 amended: a known name with its credential present yields the matching
\* implementation with the credential and config["providers"][name] when the
\* configuration has that entry, and raises KeyError when it has not.
C2_InstanceOrKeyError ==
    (Known(provider) /\ CredentialPresent(provider)) =>
        IF HasSubConfiguration(provider)
        THEN /\ self.kind = ImplementationOf(provider)
             /\ self.secret = credentials[RequiredKey(provider)]
             /\ self.config = config["providers"][provider]
        ELSE self = Raised("KeyError")

\* C2 witness: "replicate" is named, both credentials and both (different)
\* sub-configurations are there, and the Replicate implementation came back.
C2_Witness ==
    /\ provider = "replicate"
    /\ CredentialPresent("replicate")
    /\ CredentialPresent("openai")
    /\ HasSubConfiguration("replicate")
    /\ HasSubConfiguration("openai")
    /\ config["providers"]["openai"] /= config["providers"]["replicate"]
    /\ self.kind = "ReplicateImageGenerator"
    /\ self.secret = "r8-b"

----------------------------------------------------------------------------
(* Properties of generate(), under Spec *)

\* C3 as stated: generate() never ends with a raised error, whichever step
\* faults (building the request included).
C3_NeverRaises == result.kind /= "raised"

\* C4 as stated: when generate() returned None the destination is as it was
\* before the call; when it returned a path exactly one write happened, at
\* the destination.
C4_FrameOnFailure ==
    /\ result.kind = "None" => fs = fs0
    /\ result.kind = "path" =>
          /\ Count("WRITE") = 1
          /\ \A i \in DOMAIN trace : trace[i].op = "WRITE" => trace[i].arg = output_path
          /\ OthersUntouched

\* C5: whenever generate() returns a path, it is the destination passed in,
\* the destination exists, and its bytes are the image the backend returned
\* (the decoded payload of the first result object; the body of the GET).
C5_RoundTrip ==
    result.kind = "path" =>
        /\ result.value = output_path
        /\ fs[output_path].exists
        /\ IsOpenAI => (Len(resp.body.data) >= 1 /\ B64Decode(resp.body.data[1].b64).ok)
        /\ fs[output_path].bytes = ReturnedImage

\* C5 witness: the Direct-HTTP provider returned a path for a response with
\* two result objects, and the file holds three decoded bytes.
C5_Witness ==
    /\ result.kind = "path"
    /\ IsOpenAI
    /\ Len(resp.body.data) = 2
    /\ resp.body.data[1].b64 /= resp.body.data[2].b64
    /\ Len(fs[output_path].bytes) = 3

\* C6 as stated: the Direct-HTTP provider succeeds for every non-error
\* status whose body carries a valid payload, not only for 200.
C6_Original ==
    (IsOpenAI /\ pc = "done" /\ Answered /\ Undisturbed
       /\ NonError(resp.status) /\ ValidPayload) =>
        (result.kind = "path" /\ fs[output_path] = File(ReturnedImage))

\* C6 amended: the Direct-HTTP provider succeeds only for status 200: a 200
\* response with a valid payload is decoded, written and the path returned
\* (unless reading the body or writing the file faults, or the call is
\* cancelled); a response with any other status, 2xx or not, is never
\* written and never yields a path.
C6_OnlyStatus200 ==
    /\ (IsOpenAI /\ pc = "done" /\ Answered /\ Undisturbed
          /\ resp.status = 200 /\ ValidPayload) =>
          (result.kind = "path" /\ fs[output_path] = File(ReturnedImage))
    /\ (IsOpenAI /\ Answered /\ resp.status /= 200) =>
          (result.kind /= "path" /\ Count("WRITE") = 0 /\ fs = fs0)

\* C6 witness: a 201 response with a valid payload ended in None, unwritten.
C6_Witness ==
    /\ IsOpenAI
    /\ pc = "done"
    /\ resp.status = 201
    /\ ValidPayload
    /\ result.kind = "None"
    /\ fs = fs0

\* the four response cases C7 names
C7_Case ==
    \/ ~Success2xx(resp.status)
    \/ Success2xx(resp.status) /\ resp.body.json /\ resp.body.hasData
         /\ resp.body.data = <<>>
    \/ Success2xx(resp.status) /\ resp.body.json /\ resp.body.hasData
         /\ Len(resp.body.data) >= 1 /\ ~HasImage(resp.body.data[1])
    \/ Success2xx(resp.status) /\ resp.body.json /\ ~resp.body.hasData

StatusPrinted ==
    \E i \in DOMAIN diag : diag[i].kind = "http" /\ diag[i].status = resp.status

\* C7 as stated: in each of the four cases the Direct-HTTP provider returns
\* None without raising or writing, and for a non-2xx status the diagnostic
\* contains the status code.
C7_Original ==
    (IsOpenAI /\ pc = "done" /\ Answered /\ result.kind /= "cancelled" /\ C7_Case) =>
        /\ result.kind = "None"
        /\ Count("WRITE") = 0
        /\ fs = fs0
        /\ ~Success2xx(resp.status) => StatusPrinted

\* C7 without its diagnostic: in each of the four cases the Direct-HTTP
\* provider returns None without raising or writing.
C7_NoneAndUnwritten ==
    (IsOpenAI /\ pc = "done" /\ Answered /\ result.kind /= "cancelled" /\ C7_Case) =>
        /\ result.kind = "None"
        /\ Count("WRITE") = 0
        /\ fs = fs0

\* C8 as stated: the Remote-Fetch provider returns a path only if the
\* invocation returned a URL and the download of it succeeded, a GET
\* answered with a non-success status counting as a failed download.
C8_Original ==
    (IsReplicate /\ result.kind = "path") =>
        /\ output.hasUrl
        /\ Answered
        /\ Success2xx(resp.status)

\* C8 without the status: a path is returned only if the invocation returned
\* a URL, the GET was answered and its body was read.
C8_BothStepsAnswered ==
    (IsReplicate /\ result.kind = "path") =>
        /\ output.hasUrl
        /\ Answered
        /\ Ops(Len(trace)) = <<"RUN", "RESULT", "GET", "RESPONSE", "BODY", "WRITE">>

\* C9: within one call there is at most one POST (Direct-HTTP), at most one
\* invocation and one GET (Remote-Fetch), the GET comes after the invocation's
\* result and goes to the URL it exposes, and the destination is written at
\* most once, last, after every network step has completed.
C9_SingleOrderedAttempt ==
    /\ Count("POST") <= 1
    /\ Count("RUN") <= 1
    /\ Count("GET") <= 1
    /\ Count("WRITE") <= 1
    /\ IsOpenAI => (Count("RUN") = 0 /\ Count("GET") = 0)
    /\ IsReplicate => Count("POST") = 0
    /\ \A i \in DOMAIN trace :
          trace[i].op = "GET" =>
             /\ i > 1
             /\ trace[i - 1].op = "RESULT"
             /\ output.hasUrl
             /\ trace[i].arg = output.url
    /\ \A i \in DOMAIN trace :
          trace[i].op = "WRITE" =>
             /\ i = Len(trace)
             /\ trace[i].arg = output_path
             /\ Ops(i - 1) = IF IsOpenAI
                             THEN <<"POST", "RESPONSE", "BODY">>
                             ELSE <<"RUN", "RESULT", "GET", "RESPONSE", "BODY">>

\* C9 witness: a Remote-Fetch call went through invocation, GET, read and write.
C9_Witness ==
    /\ IsReplicate
    /\ pc = "done"
    /\ Count("RUN") = 1
    /\ Count("GET") = 1
    /\ Count("WRITE") = 1
    /\ output.url = "http://y/img.png"

\* the awaits of the network exchanges and of the response body
NetworkAwaits == {"oa_post", "oa_text", "oa_json", "rp_run", "rp_get", "rp_read"}

\* C10: a call cancelled while awaiting a network exchange or a response body
\* ends there, without a result and without a write: the destination is as
\* it was before the call, or holds one complete image.
C10_CancelLeavesNoPartialFile ==
    (result.kind = "cancelled" /\ cancelAt \in NetworkAwaits) =>
        /\ pc = "done"
        /\ OthersUntouched
        /\ \/ fs[output_path] = fs0[output_path]
           \/ /\ pending.kind = "return_path"
              /\ fs[output_path] = File(ReturnedImage)

\* C10 witness: cancelled while the body of an answered POST was awaited,
\* with a destination that existed before the call.
C10_Witness ==
    /\ result.kind = "cancelled"
    /\ cancelAt = "oa_json"
    /\ Answered
    /\ ValidPayload
    /\ fs0[output_path].exists

====
